---- MODULE Spec2Model ----
(***************************************************************************)
(* Model of src/ode/ode.py: the fixed-step integrators Euler, RK2 and RK4  *)
(* for dx/dt = f(x, t).                                                    *)
(*                                                                         *)
(* Numbers.  Python floats are modelled by exact rationals (a signed       *)
(* numerator and a positive denominator, both of unbounded size), so every *)
(* statement below is about the arithmetic the code writes down, without   *)
(* the rounding of IEEE doubles.  TLC's integers are 32 bits wide, so the  *)
(* numerators and denominators are kept as sequences of limbs.             *)
(***************************************************************************)
EXTENDS Integers, Sequences, FiniteSets, TLC

(***************************************************************************)
(* Naturals of unbounded size: little-endian sequences of limbs in         *)
(* 0..Base-1 without a leading (most significant) zero limb; <<>> is 0.    *)
(***************************************************************************)
Base == 100 * 100

RECURSIVE NatTrim(_)
NatTrim(a) ==
    IF a = <<>> THEN <<>>
    ELSE IF a[Len(a)] = 0 THEN NatTrim(SubSeq(a, 1, Len(a) - 1))
    ELSE a

Limb0(a) == IF a = <<>> THEN 0 ELSE Head(a)
Rest0(a) == IF a = <<>> THEN <<>> ELSE Tail(a)

RECURSIVE NatAddC(_, _, _)
NatAddC(a, b, carry) ==
    IF a = <<>> /\ b = <<>>
    THEN IF carry = 0 THEN <<>> ELSE <<carry>>
    ELSE LET s == Limb0(a) + Limb0(b) + carry
         IN  <<s % Base>> \o NatAddC(Rest0(a), Rest0(b), s \div Base)

NatAdd(a, b) == NatAddC(a, b, 0)

RECURSIVE NatSubB(_, _, _)
\* a - b - borrow for a >= b + borrow, limb by limb (untrimmed)
NatSubB(a, b, borrow) ==
    IF a = <<>> THEN <<>>
    ELSE LET s == Head(a) - Limb0(b) - borrow
         IN  IF s < 0
             THEN <<s + Base>> \o NatSubB(Tail(a), Rest0(b), 1)
             ELSE <<s>> \o NatSubB(Tail(a), Rest0(b), 0)

NatSub(a, b) == NatTrim(NatSubB(a, b, 0))

RECURSIVE NatCmpTop(_, _, _)
\* compares two naturals of the same length from limb j downwards
NatCmpTop(a, b, j) ==
    IF j = 0 THEN 0
    ELSE IF a[j] < b[j] THEN -1
    ELSE IF a[j] > b[j] THEN 1
    ELSE NatCmpTop(a, b, j - 1)

\* -1, 0 or 1 as a < b, a = b, a > b
NatCmp(a, b) ==
    IF Len(a) < Len(b) THEN -1
    ELSE IF Len(a) > Len(b) THEN 1
    ELSE NatCmpTop(a, b, Len(a))

RECURSIVE NatMulSmallC(_, _, _)
NatMulSmallC(a, k, carry) ==
    IF a = <<>>
    THEN IF carry = 0 THEN <<>> ELSE <<carry>>
    ELSE LET p == Head(a) * k + carry
         IN  <<p % Base>> \o NatMulSmallC(Tail(a), k, p \div Base)

\* a * k for 0 <= k < Base
NatMulSmall(a, k) == IF k = 0 THEN <<>> ELSE NatMulSmallC(a, k, 0)

NatShift(a) == IF a = <<>> THEN <<>> ELSE <<0>> \o a

RECURSIVE NatMul(_, _)
NatMul(a, b) ==
    IF b = <<>> THEN <<>>
    ELSE NatAdd(NatMulSmall(a, Head(b)), NatShift(NatMul(a, Tail(b))))

RECURSIVE NatModSmallR(_, _, _, _)
NatModSmallR(a, k, j, r) ==
    IF j = 0 THEN r
    ELSE NatModSmallR(a, k, j - 1, (r * Base + a[j]) % k)

\* a mod k for 0 < k < Base
NatModSmall(a, k) == NatModSmallR(a, k, Len(a), 0)

RECURSIVE NatDivSmallR(_, _, _, _)
\* the quotient limbs j..1 of a by k (little-endian), r the running remainder
NatDivSmallR(a, k, j, r) ==
    IF j = 0 THEN <<>>
    ELSE LET cur == r * Base + a[j]
         IN  NatDivSmallR(a, k, j - 1, cur % k) \o <<cur \div k>>

\* a div k for 0 < k < Base
NatDivSmall(a, k) == NatTrim(NatDivSmallR(a, k, Len(a), 0))

RECURSIVE NatOfInt(_)
NatOfInt(n) == IF n = 0 THEN <<>> ELSE <<n % Base>> \o NatOfInt(n \div Base)

NatOne == <<1>>

(***************************************************************************)
(* Rationals: [neg, num, den] with den > 0, zero as [FALSE, 0, 1].         *)
(* Every denominator the integrators produce is a product of the primes of *)
(* 2, 6, N, N-1 and of the inputs' denominators, so removing the common    *)
(* factors among SmallPrimes keeps the fractions in lowest terms for       *)
(* N <= 14.  Equality is decided by REq (cross-multiplication) and does    *)
(* not rest on that.                                                       *)
(***************************************************************************)
SmallPrimes == <<2, 3, 5, 7, 11, 13>>

RECURSIVE StripPrime(_, _, _)
StripPrime(n, d, p) ==
    IF n # <<>> /\ NatModSmall(n, p) = 0 /\ NatModSmall(d, p) = 0
    THEN StripPrime(NatDivSmall(n, p), NatDivSmall(d, p), p)
    ELSE <<n, d>>

RECURSIVE StripPrimes(_, _, _)
StripPrimes(n, d, j) ==
    IF j > Len(SmallPrimes) THEN <<n, d>>
    ELSE LET nd == StripPrime(n, d, SmallPrimes[j])
         IN  StripPrimes(nd[1], nd[2], j + 1)

Rat(neg, n, d) ==
    IF n = <<>> THEN [neg |-> FALSE, num |-> <<>>, den |-> NatOne]
    ELSE LET nd == StripPrimes(n, d, 1)
         IN  [neg |-> neg, num |-> nd[1], den |-> nd[2]]

\* the rational p/q of two machine integers, q > 0
Frac(p, q) == Rat(p < 0, NatOfInt(IF p < 0 THEN -p ELSE p), NatOfInt(q))
RInt(p) == Frac(p, 1)
RZero == RInt(0)

RNeg(a) == IF a.num = <<>> THEN a ELSE [a EXCEPT !.neg = ~a.neg]

RAdd(a, b) ==
    LET an == NatMul(a.num, b.den)
        bn == NatMul(b.num, a.den)
        d  == NatMul(a.den, b.den)
    IN  IF a.neg = b.neg THEN Rat(a.neg, NatAdd(an, bn), d)
        ELSE IF NatCmp(an, bn) >= 0 THEN Rat(a.neg, NatSub(an, bn), d)
        ELSE Rat(b.neg, NatSub(bn, an), d)

RSub(a, b) == RAdd(a, RNeg(b))
RMul(a, b) == Rat(a.neg # b.neg, NatMul(a.num, b.num), NatMul(a.den, b.den))
\* a / b for b # 0
RDiv(a, b) == Rat(a.neg # b.neg, NatMul(a.num, b.den), NatMul(a.den, b.num))

REq(a, b) == a.neg = b.neg /\ NatMul(a.num, b.den) = NatMul(b.num, a.den)
\* a < b
RLt(a, b) == LET c == RSub(a, b) IN c.neg
RAbs(a) == [a EXCEPT !.neg = FALSE]

(***************************************************************************)
(* Python values.  Sequences are 0-indexed in the source and 1-indexed     *)
(* here: At and Put translate.                                             *)
(***************************************************************************)
At(s, j) == s[j + 1]
Put(s, j, v) == [s EXCEPT ![j + 1] = v]
Half(a) == RDiv(a, RInt(2))

\* The caller's derivative f(x, t), a pure total function.  The family is
\* f(x, t) = a*x + b*t + c + q*x*t: it holds f = 0, f = c, f = t, f = x, the
\* docstrings' f = x + t, and members that are not linear in (x, t).
Apply(f, xv, tv) ==
    RAdd(RAdd(RMul(RInt(f.a), xv), RMul(RInt(f.b), tv)),
         RAdd(RInt(f.c), RMul(RInt(f.q), RMul(xv, tv))))

Value(v) == [raises |-> "", val |-> v]
Raises(e) == [raises |-> e, val |-> <<>>]

\* h = (tf-ti)/N with h = (tf-ti)/(N-1), the spacing of the grid
StepSizeGrid(ti, tf, N) ==
    IF N = 1 THEN Raises("ZeroDivisionError")
    ELSE Value(RDiv(RSub(tf, ti), RInt(N - 1)))

\* h = (tf-ti)/N: Python's float division raises ZeroDivisionError for N = 0
StepSize(ti, tf, N) ==
    IF N = 0 THEN Raises("ZeroDivisionError")
    ELSE Value(RDiv(RSub(tf, ti), RInt(N)))

\* np.linspace(start, stop, num) for num >= 0, endpoint=True: num samples
\* start + j*step with step = (stop-start)/(num-1), the last one set to stop
\* when num > 1; [start] when num = 1 and the empty array when num = 0.
\* A negative num raises ValueError ("Number of samples, %s, must be
\* non-negative").
Sample(start, stop, num, j) ==
    IF num = 1 THEN start
    ELSE RAdd(start, RMul(RInt(j), RDiv(RSub(stop, start), RInt(num - 1))))

\* linspace without its last sample, as np.arange(start, stop, step) gives
linspaceOpen(start, stop, num) ==
    IF num < 0 THEN Raises("ValueError")
    ELSE Value([j \in 1..(num - 1) |-> Sample(start, stop, num, j - 1)])

\* linspace with endpoint=False: num samples of spacing (stop-start)/num
linspaceNoEndpoint(start, stop, num) ==
    IF num < 0 THEN Raises("ValueError")
    ELSE Value([j \in 1..num |->
                  RAdd(start, RMul(RInt(j - 1), RDiv(RSub(stop, start), RInt(num))))])

\* linspace that takes a num below 1 for 1
linspaceClamped(start, stop, num) ==
    IF num < 1 THEN Value(<<start>>)
    ELSE Value([j \in 1..num |->
                  IF num > 1 /\ j = num THEN stop ELSE Sample(start, stop, num, j - 1)])

linspace(start, stop, num) ==
    IF num < 0 THEN Raises("ValueError")
    ELSE Value([j \in 1..num |->
                  IF num > 1 /\ j = num THEN stop ELSE Sample(start, stop, num, j - 1)])

\* an array one element short
zerosShort(n) == [j \in 1..(n - 1) |-> RZero]

\* np.zeros(n)
zeros(n) == [j \in 1..n |-> RZero]

\* range(len(t)): one iteration more
RangeStopLen(n) == n

\* range(len(t)-1): the loop variable runs over 0 .. len(t)-2
RangeStop(n) == n - 1

\* the update writing x[i]
TargetSame(j) == j

\* the index the update writes: x[i+1]
Target(j) == j + 1

\* line 58
EulerUpdate(f, hv, xv, tv) == RAdd(xv, RMul(hv, Apply(f, xv, tv)))

\* lines 94-97
RK2k1(f, hv, xv, tv) == RMul(hv, Apply(f, xv, tv))
RK2k2(f, hv, xv, tv, k1) ==
    RMul(hv, Apply(f, RAdd(xv, Half(k1)), RAdd(tv, Half(hv))))
RK2Update(xv, k2) == RAdd(xv, k2)

\* lines 133-138
RK4k1(f, hv, xv, tv) == RMul(hv, Apply(f, xv, tv))
RK4k2(f, hv, xv, tv, k1) ==
    RMul(hv, Apply(f, RAdd(xv, Half(k1)), RAdd(tv, Half(hv))))
RK4k3(f, hv, xv, tv, k2) ==
    RMul(hv, Apply(f, RAdd(xv, Half(k2)), RAdd(tv, Half(hv))))
RK4k4(f, hv, xv, tv, k3) ==
    RMul(hv, Apply(f, RAdd(xv, k3), RAdd(tv, hv)))
\* the four stages weighted alike
RK4UpdateEqualWeights(xv, k1, k2, k3, k4) ==
    RAdd(xv, RMul(Frac(1, 6), RAdd(RAdd(k1, k2), RAdd(k3, k4))))

RK4Update(xv, k1, k2, k3, k4) ==
    RAdd(xv, RMul(Frac(1, 6),
                  RAdd(RAdd(k1, RMul(RInt(2), k2)), RAdd(RMul(RInt(2), k3), k4))))

(***************************************************************************)
(* Inputs.                                                                 *)
(***************************************************************************)
MaxN == 4
MaxT == 1
MaxC == 1
DocN == 10

Methods == {"Euler", "RK2", "RK4"}
Derivs == [a : 0..1, b : 0..1, c : 0..MaxC, q : 0..1]
Counts == (-1)..MaxN
Times == {RInt(v) : v \in 0..MaxT}
Starts == {Frac(-1, 2)}

\* the docstrings' example: f(x, t) = x + t, N = 10, xi = 0.0, ti = 0.0, tf = 10.0
DocF == [a |-> 1, b |-> 1, c |-> 0, q |-> 0]
DocArgs(m) ==
    [m |-> m, f |-> DocF, N |-> DocN, xi |-> RZero, ti |-> RZero, tf |-> RInt(10)]

SmallArgs == [m : Methods, f : Derivs, N : Counts, xi : Starts, ti : Times, tf : Times]
Inputs == SmallArgs \cup {DocArgs(m) : m \in Methods}

\* two calls at a time
Calls == {1, 2}
\* one module-level pair of arrays used by every call
FrameShared(c) == 1

\* the frame that holds a call's arrays: np.linspace and np.zeros allocate
\* fresh arrays in every call
Frame(c) == c

(***************************************************************************)
(* State: for each call its arguments, its position, its locals, the       *)
(* number of times it has invoked f, and how it ended.                     *)
(***************************************************************************)
VARIABLES
    args,   \* the call's arguments [m, f, N, xi, ti, tf]
    pc,     \* the statement the call is at; "done" after return, "raised" after an error
    h,      \* the local h: <<>> while unbound, <<value>> once assigned
    t,      \* per frame, the array t
    x,      \* per frame, the array x
    i,      \* the loop variable, -1 before the first iteration
    k,      \* the stage values k1, k2, ... computed so far in this iteration
    nf,     \* how many times the call has invoked f
    ret,    \* <<>> until the call returns, then <<the returned array>>
    exc     \* the exception the call raised, "" if none

vars == <<args, pc, h, t, x, i, k, nf, ret, exc>>

NoArgs == DocArgs("Euler")

InitLocals ==
    /\ h = [c \in Calls |-> <<>>]
    /\ t = [c \in Calls |-> <<>>]
    /\ x = [c \in Calls |-> <<>>]
    /\ i = [c \in Calls |-> -1]
    /\ k = [c \in Calls |-> <<>>]
    /\ nf = [c \in Calls |-> 0]
    /\ ret = [c \in Calls |-> <<>>]
    /\ exc = [c \in Calls |-> ""]

\* one call
Init ==
    /\ \E a \in Inputs : args = [c \in Calls |-> IF c = 1 THEN a ELSE NoArgs]
    /\ pc = [c \in Calls |-> IF c = 1 THEN "h" ELSE "none"]
    /\ InitLocals

Raise(c, e) ==
    /\ exc' = [exc EXCEPT ![c] = e]
    /\ pc' = [pc EXCEPT ![c] = "raised"]

\* h = (tf-ti)/N
ComputeH(c) ==
    /\ pc[c] = "h"
    /\ LET r == StepSize(args[c].ti, args[c].tf, args[c].N)
       IN  IF r.raises # ""
           THEN /\ Raise(c, r.raises)
                /\ UNCHANGED h
           ELSE /\ h' = [h EXCEPT ![c] = <<r.val>>]
                /\ pc' = [pc EXCEPT ![c] = "t"]
                /\ UNCHANGED exc
    /\ UNCHANGED <<args, t, x, i, k, nf, ret>>

\* t = np.linspace(ti, tf, N)
MakeGrid(c) ==
    /\ pc[c] = "t"
    /\ LET r == linspace(args[c].ti, args[c].tf, args[c].N)
       IN  IF r.raises # ""
           THEN /\ Raise(c, r.raises)
                /\ UNCHANGED t
           ELSE /\ t' = [t EXCEPT ![Frame(c)] = r.val]
                /\ pc' = [pc EXCEPT ![c] = "x"]
                /\ UNCHANGED exc
    /\ UNCHANGED <<args, h, x, i, k, nf, ret>>

\* x = np.zeros(len(t))
Alloc(c) ==
    /\ pc[c] = "x"
    /\ x' = [x EXCEPT ![Frame(c)] = zeros(Len(t[Frame(c)]))]
    /\ pc' = [pc EXCEPT ![c] = "x0"]
    /\ UNCHANGED <<args, h, t, i, k, nf, ret, exc>>

\* x[0] = xi
Seed(c) ==
    /\ pc[c] = "x0"
    /\ IF Len(x[Frame(c)]) = 0
       THEN /\ Raise(c, "IndexError")
            /\ UNCHANGED x
       ELSE /\ x' = [x EXCEPT ![Frame(c)] = Put(@, 0, args[c].xi)]
            /\ pc' = [pc EXCEPT ![c] = "for"]
            /\ UNCHANGED exc
    /\ UNCHANGED <<args, h, t, i, k, nf, ret>>

FirstStage(m) == IF m = "Euler" THEN "euler" ELSE IF m = "RK2" THEN "rk2k1" ELSE "rk4k1"

\* for i in range(len(t)-1): bind the next i, or leave the loop
For(c) ==
    /\ pc[c] = "for"
    /\ IF i[c] + 1 < RangeStop(Len(t[Frame(c)]))
       THEN /\ i' = [i EXCEPT ![c] = @ + 1]
            /\ pc' = [pc EXCEPT ![c] = FirstStage(args[c].m)]
       ELSE /\ pc' = [pc EXCEPT ![c] = "return"]
            /\ UNCHANGED i
    /\ UNCHANGED <<args, h, t, x, k, nf, ret, exc>>

Xi(c) == At(x[Frame(c)], i[c])
Ti(c) == At(t[Frame(c)], i[c])
Hc(c) == h[c][1]

\* x[i+1] = v, an IndexError when i+1 is past the end of x
Store(c, v) ==
    IF Target(i[c]) >= Len(x[Frame(c)])
    THEN /\ Raise(c, "IndexError")
         /\ UNCHANGED x
    ELSE /\ x' = [x EXCEPT ![Frame(c)] = Put(@, Target(i[c]), v)]
         /\ pc' = [pc EXCEPT ![c] = "for"]
         /\ UNCHANGED exc

\* Euler: x[i+1] = x[i] + h * f(x[i], t[i])
EulerStep(c) ==
    /\ pc[c] = "euler"
    /\ nf' = [nf EXCEPT ![c] = @ + 1]
    /\ Store(c, EulerUpdate(args[c].f, Hc(c), Xi(c), Ti(c)))
    /\ UNCHANGED <<args, h, t, i, k, ret>>

\* one stage of RK2 or RK4: one invocation of f, the value kept in k
Stage(c, at, v, next) ==
    /\ pc[c] = at
    /\ nf' = [nf EXCEPT ![c] = @ + 1]
    /\ k' = [k EXCEPT ![c] = Append(@, v)]
    /\ pc' = [pc EXCEPT ![c] = next]
    /\ UNCHANGED <<args, h, t, x, i, ret, exc>>

RK2Stage1(c) ==
    Stage(c, "rk2k1", RK2k1(args[c].f, Hc(c), Xi(c), Ti(c)), "rk2k2")
RK2Stage2(c) ==
    Stage(c, "rk2k2", RK2k2(args[c].f, Hc(c), Xi(c), Ti(c), k[c][1]), "rk2x")

\* RK2: x[i+1] = x[i] + k2
RK2Step(c) ==
    /\ pc[c] = "rk2x"
    /\ Store(c, RK2Update(Xi(c), k[c][2]))
    /\ k' = [k EXCEPT ![c] = <<>>]
    /\ UNCHANGED <<args, h, t, i, nf, ret>>

RK4Stage1(c) ==
    Stage(c, "rk4k1", RK4k1(args[c].f, Hc(c), Xi(c), Ti(c)), "rk4k2")
RK4Stage2(c) ==
    Stage(c, "rk4k2", RK4k2(args[c].f, Hc(c), Xi(c), Ti(c), k[c][1]), "rk4k3")
RK4Stage3(c) ==
    Stage(c, "rk4k3", RK4k3(args[c].f, Hc(c), Xi(c), Ti(c), k[c][2]), "rk4k4")
RK4Stage4(c) ==
    Stage(c, "rk4k4", RK4k4(args[c].f, Hc(c), Xi(c), Ti(c), k[c][3]), "rk4x")

\* RK4: x[i+1] = x[i] + (1/6)*(k1+2*k2+2*k3+k4)
RK4Step(c) ==
    /\ pc[c] = "rk4x"
    /\ Store(c, RK4Update(Xi(c), k[c][1], k[c][2], k[c][3], k[c][4]))
    /\ k' = [k EXCEPT ![c] = <<>>]
    /\ UNCHANGED <<args, h, t, i, nf, ret>>

\* return x
Return(c) ==
    /\ pc[c] = "return"
    /\ ret' = [ret EXCEPT ![c] = <<x[Frame(c)]>>]
    /\ pc' = [pc EXCEPT ![c] = "done"]
    /\ UNCHANGED <<args, h, t, x, i, k, nf, exc>>

Next ==
    \E c \in Calls :
        \/ ComputeH(c)
        \/ MakeGrid(c)
        \/ Alloc(c)
        \/ Seed(c)
        \/ For(c)
        \/ EulerStep(c)
        \/ RK2Stage1(c)
        \/ RK2Stage2(c)
        \/ RK2Step(c)
        \/ RK4Stage1(c)
        \/ RK4Stage2(c)
        \/ RK4Stage3(c)
        \/ RK4Stage4(c)
        \/ RK4Step(c)
        \/ Return(c)

Spec == Init /\ [][Next]_vars

(***************************************************************************)
(* Two calls whose steps interleave.                                       *)
(***************************************************************************)
ParN == 3
ParArgs ==
    [m : Methods, f : {DocF}, N : 0..ParN, xi : Starts, ti : {RZero}, tf : {RInt(2)}]

InitPar ==
    /\ args \in [Calls -> ParArgs]
    /\ pc = [c \in Calls |-> "h"]
    /\ InitLocals

SpecPar == InitPar /\ [][Next]_vars

(***************************************************************************)
(* What one call computes when it runs alone, start to end.                *)
(***************************************************************************)
\* one whole iteration of the loop body: the new x[i+1]
FullStep(m, f, hv, xv, tv) ==
    IF m = "Euler" THEN EulerUpdate(f, hv, xv, tv)
    ELSE IF m = "RK2"
    THEN RK2Update(xv, RK2k2(f, hv, xv, tv, RK2k1(f, hv, xv, tv)))
    ELSE LET k1 == RK4k1(f, hv, xv, tv)
             k2 == RK4k2(f, hv, xv, tv, k1)
             k3 == RK4k3(f, hv, xv, tv, k2)
             k4 == RK4k4(f, hv, xv, tv, k3)
         IN  RK4Update(xv, k1, k2, k3, k4)

RECURSIVE Fill(_, _, _, _, _, _)
\* the iterations j, j+1, ... of the loop
Fill(m, f, hv, tt, xx, j) ==
    IF j >= RangeStop(Len(tt)) THEN xx
    ELSE Fill(m, f, hv, tt, Put(xx, Target(j), FullStep(m, f, hv, At(xx, j), At(tt, j))), j + 1)

\* the outcome of one call: what it raises, or the array it returns
RunAlone(a) ==
    LET hr == StepSize(a.ti, a.tf, a.N)
        tr == linspace(a.ti, a.tf, a.N)
    IN  IF hr.raises # "" THEN hr
        ELSE IF tr.raises # "" THEN tr
        ELSE IF Len(tr.val) = 0 THEN Raises("IndexError")
        ELSE Value(Fill(a.m, a.f, hr.val, tr.val, Put(zeros(Len(tr.val)), 0, a.xi), 0))

StagesOf(m) == IF m = "Euler" THEN 1 ELSE IF m = "RK2" THEN 2 ELSE 4

SeqEq(u, v) == Len(u) = Len(v) /\ \A j \in 1..Len(u) : REq(u[j], v[j])
RLe(a, b) == ~RLt(b, a)
\* |a - b| <= tol
Within(a, b, tol) == RLe(RAbs(RSub(a, b)), tol)

Seeded(c) == pc[c] \notin {"none", "h", "t", "x", "x0", "raised"}
Gridded(c) == pc[c] \notin {"none", "h", "t", "raised"}

(***************************************************************************)
(* Claims.                                                                 *)
(***************************************************************************)

\* C1: for each of Euler, RK2 and RK4 and every N >= 1, the call does not
\* raise, and the sequence it returns has length exactly N.
C1_LengthIsN ==
    \A c \in Calls :
        args[c].N >= 1 =>
            /\ pc[c] # "raised"
            /\ pc[c] = "done" => Len(ret[c][1]) = args[c].N

C1_Witness ==
    \E c \in Calls :
        /\ pc[c] = "done" /\ args[c].m = "RK2" /\ args[c].N = 3
        /\ Len(ret[c][1]) = 3

\* C2: for each stepper and every N >= 1, entry 0 of the trajectory is xi
\* in every state from the moment it is seeded on (so no step of the fill
\* loop overwrites it), and in the returned sequence.
C2_FirstIsXi ==
    \A c \in Calls :
        /\ Seeded(c) => At(x[Frame(c)], 0) = args[c].xi
        /\ pc[c] = "done" => At(ret[c][1], 0) = args[c].xi

C2_Witness ==
    \E c \in Calls :
        /\ pc[c] = "done" /\ args[c].m = "RK4" /\ args[c].N = 3
        /\ args[c].f = DocF /\ args[c].ti # args[c].tf
        /\ At(ret[c][1], 0) = args[c].xi
        /\ ~REq(At(ret[c][1], 1), args[c].xi)

\* C3: in one call with N >= 1, f has been invoked at most stages x (N-1)
\* times at every moment, and exactly stages x (N-1) times when the call has
\* returned: 1 x, 2 x, 4 x (N-1) for Euler, RK2, RK4.
C3_InvocationCount ==
    \A c \in Calls :
        args[c].N >= 1 =>
            /\ nf[c] <= StagesOf(args[c].m) * (args[c].N - 1)
            /\ pc[c] = "done" => nf[c] = StagesOf(args[c].m) * (args[c].N - 1)
            /\ pc[c] # "raised"

C3_Witness ==
    \E c \in Calls :
        /\ pc[c] = "done" /\ args[c].m = "RK4" /\ args[c].N = 4
        /\ nf[c] = 12

\* C4: for every stepper and every N <= 0, the call ends by raising an error
\* (ZeroDivisionError for N = 0, ValueError for N < 0) before any array is
\* seeded: nothing is returned and f is never invoked.
C4_NonPositiveNFails ==
    \A c \in Calls :
        args[c].N <= 0 =>
            /\ pc[c] \in {"none", "h", "t", "raised"}
            /\ ret[c] = <<>>
            /\ nf[c] = 0
            /\ pc[c] = "raised" =>
                   exc[c] = IF args[c].N = 0 THEN "ZeroDivisionError" ELSE "ValueError"

C4_WitnessZero ==
    \E c \in Calls :
        /\ args[c].N = 0 /\ pc[c] = "raised" /\ exc[c] = "ZeroDivisionError"

C4_Witness ==
    \E c \in Calls :
        /\ args[c].N < 0 /\ pc[c] = "raised" /\ exc[c] = "ValueError"
        /\ args[c].m = "RK4"

\* C5: for every stepper called with N = 1 (tf # ti included), the call
\* returns the one-element sequence [xi] and never invokes f.
C5_SinglePoint ==
    \A c \in Calls :
        args[c].N = 1 =>
            /\ nf[c] = 0
            /\ pc[c] # "raised"
            /\ pc[c] \notin {"euler", "rk2k1", "rk2k2", "rk2x",
                             "rk4k1", "rk4k2", "rk4k3", "rk4k4", "rk4x"}
            /\ pc[c] = "done" => ret[c][1] = <<args[c].xi>>

C5_Witness ==
    \E c \in Calls :
        /\ args[c].N = 1 /\ pc[c] = "done" /\ args[c].ti # args[c].tf
        /\ args[c].m = "RK2"
        /\ ret[c][1] = <<args[c].xi>>

IsConstant(f) == f.a = 0 /\ f.b = 0 /\ f.q = 0

IsTime(f) == f.a = 0 /\ f.b = 1 /\ f.c = 0 /\ f.q = 0

\* C7: RK4 on f(x,t) = t returns, for every N >= 1 and every index j, the
\* analytic solution at the j-th grid time: x[j] = xi + (t[j]^2 - ti^2)/2.
C7_RK4ExactOnGrid ==
    \A c \in Calls :
        (pc[c] = "done" /\ args[c].m = "RK4" /\ IsTime(args[c].f)) =>
            \A j \in 0..(args[c].N - 1) :
                LET tj == At(t[Frame(c)], j)
                IN  REq(At(ret[c][1], j),
                        RAdd(args[c].xi,
                             Half(RSub(RMul(tj, tj), RMul(args[c].ti, args[c].ti)))))

(***************************************************************************)
(* The arrays the docstrings print for f(x,t) = x + t, N = 10, xi = 0.0,   *)
(* ti = 0.0, tf = 10.0, each entry as <<whole, fraction, decimals>>: the   *)
(* number whole + fraction * 10^-decimals.  Euler's are printed with eight *)
(* decimals; RK2's and RK4's are printed in scientific notation with nine  *)
(* significant digits.                                                     *)
(***************************************************************************)
DocEuler ==
    << <<0, 0, 8>>, <<0, 0, 8>>, <<1, 11111111, 8>>, <<4, 44444444, 8>>,
       <<12, 22222222, 8>>, <<28, 88888889, 8>>, <<63, 33333333, 8>>,
       <<133, 33333333, 8>>, <<274, 44444444, 8>>, <<557, 77777778, 8>> >>
DocRK2 ==
    << <<0, 0, 8>>, <<0, 500000000, 9>>, <<3, 41666667, 8>>, <<12, 3750000, 7>>,
       <<36, 4375000, 7>>, <<98, 2604167, 7>>, <<254, 484375, 6>>,
       <<646, 710937, 6>>, <<1628, 94401, 5>>, <<4086, 19336, 5>> >>
DocRK4 ==
    << <<0, 0, 8>>, <<0, 708333333, 9>>, <<4, 52488426, 8>>, <<16, 7595245, 7>>,
       <<51, 7931566, 7>>, <<148, 574058, 6>>, <<412, 587149, 6>>,
       <<1129, 52075, 5>>, <<3073, 11407, 5>>, <<8338, 91079, 5>> >>

RECURSIVE Pow10(_)
Pow10(d) == IF d = 0 THEN NatOne ELSE NatMulSmall(Pow10(d - 1), 10)

Literal(l) == RAdd(RInt(l[1]), Rat(FALSE, NatOfInt(l[2]), Pow10(l[3])))
\* half a unit of the last printed digit
HalfUlp(l) == Rat(FALSE, NatOne, NatMulSmall(Pow10(l[3]), 2))
Millionth == Rat(FALSE, NatOne, Pow10(6))

DocOf(m) == IF m = "Euler" THEN DocEuler ELSE IF m = "RK2" THEN DocRK2 ELSE DocRK4

\* C8: each stepper steps with h = (tf-ti)/N over the grid times
\* t[j] = ti + j*(tf-ti)/(N-1), and every entry x[j+1] of the sequence it
\* returns is its update rule applied to x[j], t[j] and h; on the example
\* of the docstrings, f(x,t) = x+t, N = 10, xi = 0.0, ti = 0.0, tf = 10.0,
\* Euler's result is within 1e-6 of the printed array, and RK2's and RK4's results round to the
\* printed digits (each entry within half a unit of the last printed digit).
C8_UpdateRuleAndExample ==
    \A c \in Calls :
        LET a == args[c] IN
        /\ pc[c] \notin {"none", "h", "raised"} =>
               REq(Hc(c), RDiv(RSub(a.tf, a.ti), RInt(a.N)))
        /\ (Gridded(c) /\ a.N >= 2) =>
               \A j \in 0..(a.N - 1) :
                   REq(At(t[Frame(c)], j),
                       RAdd(a.ti, RDiv(RMul(RInt(j), RSub(a.tf, a.ti)), RInt(a.N - 1))))
        /\ pc[c] = "done" =>
               \A j \in 0..(a.N - 2) :
                   REq(At(ret[c][1], j + 1),
                       FullStep(a.m, a.f, Hc(c), At(ret[c][1], j), At(t[Frame(c)], j)))
        /\ (pc[c] = "done" /\ a = DocArgs(a.m)) =>
               /\ Len(ret[c][1]) = Len(DocOf(a.m))
               /\ \A j \in 1..Len(ret[c][1]) :
                      LET l == DocOf(a.m)[j]
                      IN  Within(ret[c][1][j], Literal(l),
                                 IF a.m = "Euler" THEN Millionth ELSE HalfUlp(l))

C8_Witness ==
    \E c \in Calls :
        /\ pc[c] = "done" /\ args[c] = DocArgs("RK4")
        /\ Within(ret[c][1][10], Literal(DocRK4[10]), HalfUlp(DocRK4[10]))
        /\ ~REq(ret[c][1][10], Literal(DocRK4[10]))

\* C9: when the steps of two calls interleave in any order, each call ends
\* as it ends when run alone: it returns the same sequence, or raises the
\* same error; and two calls with the same method, f, N, xi, ti, tf that have
\* both returned have returned equal sequences.
C9_CallsIndependent ==
    /\ \A c \in Calls :
           /\ pc[c] = "done" =>
                  /\ RunAlone(args[c]).raises = ""
                  /\ SeqEq(ret[c][1], RunAlone(args[c]).val)
           /\ pc[c] = "raised" => exc[c] = RunAlone(args[c]).raises
    /\ \A c, d \in Calls :
           (pc[c] = "done" /\ pc[d] = "done" /\ args[c] = args[d]) =>
               SeqEq(ret[c][1], ret[d][1])

\* both calls have returned, different sequences, and each was still in its
\* loop while the other took steps
C9_Witness ==
    /\ pc[1] = "done" /\ pc[2] = "done"
    /\ args[1].m = "RK4" /\ args[2].m = "Euler"
    /\ args[1].N = 3 /\ args[2].N = 3
    /\ ~SeqEq(ret[1][1], ret[2][1])

\* C9, the interleaving: a state in which both calls are in the middle of
\* their loops
C9_BothInLoop ==
    /\ pc[1] = "rk4k3" /\ i[1] = 1
    /\ pc[2] = "rk2k2" /\ i[2] = 0

\* C10 as stated: for every N >= 1 the grid has exactly N values, its first
\* is ti, its last is tf, and it is strictly monotonic when ti # tf.
C10_GridEndsAtTf ==
    \A c \in Calls :
        (Gridded(c) /\ args[c].N >= 1) =>
            LET g == t[Frame(c)]
                n == args[c].N
            IN  /\ Len(g) = n
                /\ At(g, 0) = args[c].ti
                /\ At(g, n - 1) = args[c].tf
                /\ \A j \in 0..(n - 2) :
                       /\ RLt(args[c].ti, args[c].tf) => RLt(At(g, j), At(g, j + 1))
                       /\ RLt(args[c].tf, args[c].ti) => RLt(At(g, j + 1), At(g, j))

\* C10, amended: for every N >= 1 the grid has exactly N values and its first
\* is ti; its last is tf when N >= 2, and for N = 1 the grid is [ti]; it is
\* strictly monotonic (increasing when ti < tf, decreasing when tf < ti).
C10_Grid ==
    \A c \in Calls :
        (Gridded(c) /\ args[c].N >= 1) =>
            LET g == t[Frame(c)]
                n == args[c].N
            IN  /\ Len(g) = n
                /\ At(g, 0) = args[c].ti
                /\ n >= 2 => At(g, n - 1) = args[c].tf
                /\ n = 1 => g = <<args[c].ti>>
                /\ \A j \in 0..(n - 2) :
                       /\ RLt(args[c].ti, args[c].tf) => RLt(At(g, j), At(g, j + 1))
                       /\ RLt(args[c].tf, args[c].ti) => RLt(At(g, j + 1), At(g, j))

C10_Witness ==
    \E c \in Calls :
        /\ Gridded(c) /\ args[c].N = 4
        /\ RLt(args[c].tf, args[c].ti)
        /\ At(t[Frame(c)], 3) = args[c].tf
        /\ RLt(At(t[Frame(c)], 2), At(t[Frame(c)], 1))

====
